---- MODULE Spec2Model ----
(***************************************************************************)
(* Model of app.py: a Streamlit attendance tracker over a local SQLite     *)
(* store (tables participantes, atividades, frequencia) behind a login     *)
(* gate.  One step of the model is one execution of the script (Streamlit  *)
(* re-executes the whole script on every interaction).                     *)
(*                                                                         *)
(* Text that the program formats, parses or sorts is modelled as a         *)
(* sequence of characters (a value typed by the operator, such as a name,  *)
(* is one opaque element), so that formatting, parsing and the byte-wise   *)
(* comparison SQLite uses for TEXT columns are computed and not assumed.   *)
(***************************************************************************)
EXTENDS Integers, Sequences, FiniteSets, TLC

VARIABLES db, work, snapshot, pc, arg, authentication_status, today, msg

vars == <<db, work, snapshot, pc, arg, authentication_status, today, msg>>

(***************************************************************************)
(* Bounds of the model.                                                    *)
(***************************************************************************)
MaxInserts == 4   \* rows inserted, over the three tables, in a behaviour

\* Python's None (and SQL NULL) where an id is expected.
None == 0 - 1

Date(y, m, d) == [year |-> y, month |-> m, day |-> d]

\* Values the operator can type or pick in the widgets.
ParticipanteInputs ==
    { <<"Ana", 10, "Feminino", "5o ano">>, <<"Bia", 12, "Masculino", "6o ano">> }
AtividadeInputs ==
    { <<"Futebol", "Treino semanal">>, <<"Volei", "Aula">> }
PresencaInputs == {"Presente", "Ausente"}
DateInputs == { Date(2024, 2, 10), Date(2024, 10, 5) }
\* The days on which the program may be running (date.today()).
TodayInputs == { Date(2024, 10, 5), Date(2025, 1, 9) }

(***************************************************************************)
(* Text: str(), int(), date.isoformat(), str.split(), str.strip().         *)
(***************************************************************************)
Digits == <<"0", "1", "2", "3", "4", "5", "6", "7", "8", "9">>

Range10 == { Digits[i] : i \in 1..10 }

DigitValues ==
    [ch \in Range10 |-> (CHOOSE i \in 1..10 : Digits[i] = ch) - 1]

DigitValue(ch) == DigitValues[ch]

\* Code point of a character, for the characters that occur in a date.
Ord(ch) == IF ch = "-" THEN 45 ELSE 48 + DigitValue(ch)

RECURSIVE str(_)
str(n) == IF n < 10 THEN <<Digits[n + 1]>>
          ELSE str(n \div 10) \o <<Digits[(n % 10) + 1]>>

RECURSIVE int(_)
int(s) == IF Len(s) = 1 THEN DigitValue(s[1])
          ELSE 10 * int(SubSeq(s, 1, Len(s) - 1)) + DigitValue(s[Len(s)])

RECURSIVE zfill(_, _)
zfill(s, width) == IF Len(s) >= width THEN s ELSE zfill(<<"0">> \o s, width)

\* Index of the first occurrence of sep in s, 0 if there is none.
RECURSIVE find(_, _)
find(s, sep) ==
    IF s = <<>> THEN 0
    ELSE IF s[1] = sep THEN 1
    ELSE LET k == find(Tail(s), sep)
         IN  IF k = 0 THEN 0 ELSE k + 1

RECURSIVE split(_, _)
split(s, sep) ==
    LET k == find(s, sep)
    IN  IF k = 0 THEN <<s>>
        ELSE <<SubSeq(s, 1, k - 1)>> \o split(SubSeq(s, k + 1, Len(s)), sep)

RECURSIVE strip(_)
strip(s) ==
    IF s # <<>> /\ s[1] = " " THEN strip(Tail(s))
    ELSE IF s # <<>> /\ s[Len(s)] = " " THEN strip(SubSeq(s, 1, Len(s) - 1))
    ELSE s

\* A date without zero padding, as "2024-2-10".
isoformat_unpadded(d) ==
    str(d.year) \o <<"-">> \o str(d.month) \o <<"-">> \o str(d.day)

\* The text sqlite3 stores for a datetime.date parameter: "YYYY-MM-DD".
isoformat(d) ==
    zfill(str(d.year), 4) \o <<"-">> \o zfill(str(d.month), 2)
    \o <<"-">> \o zfill(str(d.day), 2)

\* pd.to_datetime(text).dt.date on a year-month-day text.
to_date(text) ==
    LET parts == split(text, "-")
    IN  Date(int(parts[1]), int(parts[2]), int(parts[3]))

\* Order of two TEXT values under SQLite's BINARY collation (memcmp).
RECURSIVE TextLeq(_, _)
TextLeq(a, b) ==
    IF a = <<>> THEN TRUE
    ELSE IF b = <<>> THEN FALSE
    ELSE IF Ord(a[1]) < Ord(b[1]) THEN TRUE
    ELSE IF Ord(a[1]) > Ord(b[1]) THEN FALSE
    ELSE TextLeq(Tail(a), Tail(b))

\* f"ID: {p[0]}, Nome: {p[1]}, Idade: {p[2]}"
LabelParticipante(p) ==
    <<"ID", ":", " ">> \o str(p[1]) \o <<",", " ", "Nome", ":", " ", p[2]>>
    \o <<",", " ", "Idade", ":", " ">> \o str(p[3])

\* f"ID: {a[0]}, Atividade: {a[1]}"
LabelAtividade(a) ==
    <<"ID", ":", " ">> \o str(a[1]) \o <<",", " ", "Atividade", ":", " ", a[2]>>

\* f"ID: {f[0]}, Nome: {f[1]}, Atividade: {f[2]}, Data: {f[3]}"
LabelFrequencia(f) ==
    <<"ID", ":", " ">> \o str(f[1]) \o <<",", " ", "Nome", ":", " ", f[2]>>
    \o <<",", " ", "Atividade", ":", " ", f[3], ",", " ", "Data", ":", " ">>
    \o str(f[4])

\* int(label.split(',')[0].split(':')[1].strip())
ParseId(label) == int(strip(split(split(label, ",")[1], ":")[2]))

(***************************************************************************)
(* The store.  A table is the sequence of its rows in rowid order;         *)
(* sqlite_sequence holds the largest rowid AUTOINCREMENT ever assigned.    *)
(***************************************************************************)
EmptyStore ==
    [exists |-> FALSE,
     participantes |-> <<>>, atividades |-> <<>>, frequencia |-> <<>>,
     sqlite_sequence |-> [participantes |-> 0, atividades |-> 0, frequencia |-> 0]]

Range(s) == { s[i] : i \in 1..Len(s) }

\* CREATE TABLE without IF NOT EXISTS semantics: the tables are made anew.
create_tables_fresh(s) == [EmptyStore EXCEPT !.exists = TRUE]

\* CREATE TABLE IF NOT EXISTS, three times.
create_tables(s) == IF s.exists THEN s ELSE [EmptyStore EXCEPT !.exists = TRUE]

\* The number of rows ever inserted.
Inserts(s) ==
    s.sqlite_sequence.participantes + s.sqlite_sequence.atividades
    + s.sqlite_sequence.frequencia

\* INTEGER PRIMARY KEY AUTOINCREMENT: one more than any rowid ever used.
NextRowid(s, table) == s.sqlite_sequence[table] + 1

\* The INSERT with genero and escolaridade bound in each other's place.
add_participante_swapped(s, nome, idade, genero, escolaridade, hoje) ==
    [s EXCEPT
       !.participantes = Append(@,
           [id |-> NextRowid(s, "participantes"), nome |-> nome, idade |-> idade,
            genero |-> escolaridade, escolaridade |-> genero,
            data_inscricao |-> isoformat(hoje)]),
       !.sqlite_sequence.participantes = NextRowid(s, "participantes")]

add_participante(s, nome, idade, genero, escolaridade, hoje) ==
    [s EXCEPT
       !.participantes = Append(@,
           [id |-> NextRowid(s, "participantes"), nome |-> nome, idade |-> idade,
            genero |-> genero, escolaridade |-> escolaridade,
            data_inscricao |-> isoformat(hoje)]),
       !.sqlite_sequence.participantes = NextRowid(s, "participantes")]

add_atividade(s, atividade, descricao, hoje) ==
    [s EXCEPT
       !.atividades = Append(@,
           [id |-> NextRowid(s, "atividades"), atividade |-> atividade,
            descricao |-> descricao, data_atividade |-> isoformat(hoje)]),
       !.sqlite_sequence.atividades = NextRowid(s, "atividades")]

registrar_frequencia(s, participante_id, atividade_id, presenca, data_frequencia) ==
    [s EXCEPT
       !.frequencia = Append(@,
           [id |-> NextRowid(s, "frequencia"), participante_id |-> participante_id,
            atividade_id |-> atividade_id, presenca |-> presenca,
            data_frequencia |-> isoformat(data_frequencia)]),
       !.sqlite_sequence.frequencia = NextRowid(s, "frequencia")]

\* SELECT * FROM participantes
visualizar_participantes(s) ==
    [i \in 1..Len(s.participantes) |->
        <<s.participantes[i].id, s.participantes[i].nome, s.participantes[i].idade,
          s.participantes[i].genero, s.participantes[i].escolaridade,
          s.participantes[i].data_inscricao>>]

\* SELECT * FROM atividades
visualizar_atividades(s) ==
    [i \in 1..Len(s.atividades) |->
        <<s.atividades[i].id, s.atividades[i].atividade, s.atividades[i].descricao,
          s.atividades[i].data_atividade>>]

\* SELECT id, nome, idade FROM participantes
get_participantes_dropdown(s) ==
    [i \in 1..Len(s.participantes) |->
        <<s.participantes[i].id, s.participantes[i].nome, s.participantes[i].idade>>]

\* SELECT id, atividade FROM atividades
get_atividades_dropdown(s) ==
    [i \in 1..Len(s.atividades) |-> <<s.atividades[i].id, s.atividades[i].atividade>>]

\* The possible results of a SELECT of the rows S with ORDER BY on a TEXT
\* column: the sequences that hold every row once, in non-decreasing order
\* of that column (rows that tie are in any order).
OrderBy(S, column) ==
    { f \in [1..Cardinality(S) -> S] :
        /\ \A i, j \in 1..Cardinality(S) : i # j => f[i] # f[j]
        /\ \A i \in 1..(Cardinality(S) - 1) : TextLeq(f[i][column], f[i + 1][column]) }

\* frequencia f JOIN participantes p ON f.participante_id = p.id
\*              JOIN atividades a ON f.atividade_id = a.id
JoinFrequencia(s) ==
    { <<t[1].id, t[2].nome, t[3].atividade, t[1].presenca, t[1].data_frequencia>> :
        t \in { u \in Range(s.frequencia) \X Range(s.participantes) \X Range(s.atividades) :
                  u[1].participante_id = u[2].id /\ u[1].atividade_id = u[3].id } }

\* The possible results of the query, ORDER BY f.data_frequencia.
visualizar_frequencia(s) ==
    OrderBy(JoinFrequencia(s), 5)

\* No WHERE clause: every joined row is counted.
WherePresenteAll(f) == TRUE

\* WHERE f.presenca = 1
WherePresente(f) == f.presenca = 1

\* frequencia f JOIN atividades a ON f.atividade_id = a.id WHERE f.presenca = 1
JoinPresentes(s) ==
    { <<t[2].atividade, t[1].data_frequencia, t[1].id>> :
        t \in { u \in Range(s.frequencia) \X Range(s.atividades) :
                  u[1].atividade_id = u[2].id /\ WherePresente(u[1]) } }

\* GROUP BY a.atividade, f.data_frequencia with COUNT(f.presenca)
GroupPresentes(s) ==
    { <<k[1], k[2], Cardinality({ r \in JoinPresentes(s) : r[1] = k[1] /\ r[2] = k[2] })>> :
        k \in { <<r[1], r[2]>> : r \in JoinPresentes(s) } }

\* The possible DataFrames: the groups ORDER BY f.data_frequencia, with the
\* column Data converted by pd.to_datetime(...).dt.date.
obter_dados_participantes_por_atividade(s) ==
    { [i \in 1..Len(q) |-> <<q[i][1], to_date(q[i][2]), q[i][3]>>] :
        q \in OrderBy(GroupPresentes(s), 2) }

\* The first DELETE of excluir_participante left out.
delete_frequencia_participante_skipped(s, participante_id) == s

\* DELETE FROM frequencia WHERE participante_id = ?
delete_frequencia_participante(s, participante_id) ==
    [s EXCEPT !.frequencia = SelectSeq(@, LAMBDA r : r.participante_id # participante_id)]

\* The DELETE without its WHERE clause: every participant goes.
delete_participante_all(s, participante_id) ==
    [s EXCEPT !.participantes = <<>>]

\* DELETE FROM participantes WHERE id = ?
delete_participante(s, participante_id) ==
    [s EXCEPT !.participantes = SelectSeq(@, LAMBDA r : r.id # participante_id)]

\* The first DELETE of excluir_atividade left out.
delete_frequencia_atividade_skipped(s, atividade_id) == s

\* DELETE FROM frequencia WHERE atividade_id = ?
delete_frequencia_atividade(s, atividade_id) ==
    [s EXCEPT !.frequencia = SelectSeq(@, LAMBDA r : r.atividade_id # atividade_id)]

\* DELETE FROM atividades WHERE id = ?
delete_atividade(s, atividade_id) ==
    [s EXCEPT !.atividades = SelectSeq(@, LAMBDA r : r.id # atividade_id)]

\* Both statements and the commit.
excluir_participante(s, participante_id) ==
    delete_participante(delete_frequencia_participante(s, participante_id), participante_id)

excluir_atividade(s, atividade_id) ==
    delete_atividade(delete_frequencia_atividade(s, atividade_id), atividade_id)

\* DELETE FROM frequencia WHERE id = ?
excluir_frequencia(s, frequencia_id) ==
    [s EXCEPT !.frequencia = SelectSeq(@, LAMBDA r : r.id # frequencia_id)]

\* A connection in autocommit mode: every statement is persisted at once.
ImplicitTransactionAutocommit(committed, view) == view

\* What the database file holds after a statement that changed the
\* connection's view and before conn.commit(): sqlite3 opened a transaction
\* before the DELETE, so the file still holds what was committed.
ImplicitTransaction(committed, view) == committed

(***************************************************************************)
(* The script.  db is the content of the database file.  While a handler   *)
(* is followed statement by statement, pc is the position in it, arg its   *)
(* argument, work the content as the connection sees it inside the open    *)
(* transaction and snapshot the content of the file when the handler was   *)
(* entered (both are EmptyStore otherwise).  today is the day on which the *)
(* program runs.  msg is what the run reported:                            *)
(* st.success or st.error of the handler of the button that was clicked,   *)
(* else whether the rendered screen shows a warning (or the login error).  *)
(***************************************************************************)
Menu ==
    { "Cadastrar Participante", "Cadastrar Atividade", "Registrar Frequencia",
      "Excluir Registro", "Relatorios" }

\* The checkboxes of a screen.
Checkboxes(choice) ==
    IF choice = "Excluir Registro"
    THEN { "Excluir Participante", "Excluir Atividade", "Excluir Frequencia" }
    ELSE IF choice = "Relatorios"
    THEN { "Visualizar Participantes", "Visualizar Atividades", "Visualizar Frequencia",
           "Visualizar Grafico" }
    ELSE { }

\* `if authentication_status != False:` would let the None status through.
GateNotFalse(status) == status # "False"

\* `if authentication_status:` is taken for True only, not for False or None.
Gate(status) == status = "True"

\* `or` in the place of `and`.
RegistravelEither(participante_id, atividade_id) ==
    participante_id # None \/ atividade_id # None

\* participante_id is not None and atividade_id is not None
Registravel(participante_id, atividade_id) ==
    participante_id # None /\ atividade_id # None

\* The id parsed from the selected label, None when there is no selectbox.
SelecionarParticipante(s) ==
    IF get_participantes_dropdown(s) # <<>>
    THEN { ParseId(LabelParticipante(p)) : p \in Range(get_participantes_dropdown(s)) }
    ELSE { None }

SelecionarAtividade(s) ==
    IF get_atividades_dropdown(s) # <<>>
    THEN { ParseId(LabelAtividade(a)) : a \in Range(get_atividades_dropdown(s)) }
    ELSE { None }

SelecionarFrequencia(s) ==
    UNION { { ParseId(LabelFrequencia(f)) : f \in Range(q) } : q \in visualizar_frequencia(s) }

\* Whether the screen rendered for (choice, boxes) shows an st.warning, given
\* what the queries of the screens returned.
ScreenWarning(participantes, atividades, frequencias, df_presenca, choice, boxes) ==
    \/ /\ choice = "Registrar Frequencia"
       /\ (participantes = <<>> \/ atividades = <<>>)
    \/ /\ choice = "Excluir Registro"
       /\ \/ "Excluir Participante" \in boxes /\ participantes = <<>>
          \/ "Excluir Atividade" \in boxes /\ atividades = <<>>
          \/ "Excluir Frequencia" \in boxes /\ frequencias = { <<>> }
    \/ /\ choice = "Relatorios"
       /\ "Visualizar Grafico" \in boxes
       /\ df_presenca = { <<>> }

\* The end of a run whose handler ran to its end: the file holds newdb.
Finish(newdb, newmsg) ==
    /\ msg' = newmsg
    /\ UNCHANGED <<work, snapshot, pc, arg, today>>
    /\ db' = newdb

Init ==
    /\ db = EmptyStore
    /\ work = EmptyStore
    /\ snapshot = EmptyStore
    /\ pc = "idle"
    /\ arg = None
    /\ authentication_status = "None"
    /\ today \in TodayInputs
    /\ msg = "none"

\* The login form is submitted: the authenticator accepts or rejects.
Login ==
    /\ pc = "idle"
    /\ authentication_status # "True"
    /\ \E ok \in BOOLEAN :
         /\ authentication_status' = IF ok THEN "True" ELSE "False"
         /\ Finish(create_tables(db),
                   IF Gate(authentication_status') THEN "none" ELSE "error")

\* A run with nobody logged in: the error or the prompt, and nothing else.
LoginPrompt ==
    /\ pc = "idle"
    /\ ~ Gate(authentication_status)
    /\ UNCHANGED authentication_status
    /\ Finish(create_tables(db),
              IF authentication_status = "False" THEN "error" ELSE "warning")

\* The logout button: the session is no longer authenticated.
Logout ==
    /\ pc = "idle"
    /\ authentication_status = "True"
    /\ authentication_status' = "None"
    /\ Finish(create_tables(db), "none")

\* A run in which no button was clicked: a screen and its sub-panels render.
Render ==
    /\ pc = "idle"
    /\ Gate(authentication_status)
    /\ UNCHANGED <<authentication_status, work, snapshot, pc, arg, today>>
    /\ db' = create_tables(db)
    /\ \E warning \in
            LET participantes == get_participantes_dropdown(create_tables(db))
                atividades == get_atividades_dropdown(create_tables(db))
                frequencias == visualizar_frequencia(create_tables(db))
                df_presenca == obter_dados_participantes_por_atividade(create_tables(db))
            IN  UNION { { ScreenWarning(participantes, atividades, frequencias,
                                        df_presenca, choice, boxes) :
                            boxes \in SUBSET Checkboxes(choice) } : choice \in Menu } :
         msg' = IF warning THEN "warning" ELSE "none"

\* 'Cadastrar' on the screen Cadastrar Participante.
CadastrarParticipante ==
    /\ pc = "idle"
    /\ Gate(authentication_status)
    /\ UNCHANGED authentication_status
    /\ Inserts(create_tables(db)) < MaxInserts
    /\ \E in \in ParticipanteInputs :
         Finish(add_participante(create_tables(db), in[1], in[2], in[3], in[4], today),
                "success")

\* 'Cadastrar' on the screen Cadastrar Atividade.
CadastrarAtividade ==
    /\ pc = "idle"
    /\ Gate(authentication_status)
    /\ UNCHANGED authentication_status
    /\ Inserts(create_tables(db)) < MaxInserts
    /\ \E in \in AtividadeInputs :
         Finish(add_atividade(create_tables(db), in[1], in[2], today), "success")

\* 'Registrar' on the screen Registrar Frequencia.
RegistrarFrequencia ==
    /\ pc = "idle"
    /\ Gate(authentication_status)
    /\ UNCHANGED authentication_status
    /\ \E participante_id \in SelecionarParticipante(create_tables(db)),
          atividade_id \in SelecionarAtividade(create_tables(db)),
          presenca_texto \in PresencaInputs,
          data_frequencia \in DateInputs :
         IF Registravel(participante_id, atividade_id)
         THEN /\ Inserts(create_tables(db)) < MaxInserts
              /\ Finish(registrar_frequencia(create_tables(db), participante_id, atividade_id,
                                             IF presenca_texto = "Presente" THEN 1 ELSE 0,
                                             data_frequencia),
                        "success")
         ELSE Finish(create_tables(db), "error")

\* 'Excluir Participante' in the sub-panel of Excluir Registro.
ExcluirParticipante ==
    /\ pc = "idle"
    /\ Gate(authentication_status)
    /\ UNCHANGED authentication_status
    /\ get_participantes_dropdown(create_tables(db)) # <<>>
    /\ \E participante_id \in SelecionarParticipante(create_tables(db)) :
         Finish(excluir_participante(create_tables(db), participante_id), "success")

\* 'Excluir Atividade' in the sub-panel of Excluir Registro.
ExcluirAtividade ==
    /\ pc = "idle"
    /\ Gate(authentication_status)
    /\ UNCHANGED authentication_status
    /\ get_atividades_dropdown(create_tables(db)) # <<>>
    /\ \E atividade_id \in SelecionarAtividade(create_tables(db)) :
         Finish(excluir_atividade(create_tables(db), atividade_id), "success")

\* 'Excluir Frequencia' in the sub-panel of Excluir Registro.
ExcluirFrequencia ==
    /\ pc = "idle"
    /\ Gate(authentication_status)
    /\ UNCHANGED authentication_status
    /\ visualizar_frequencia(create_tables(db)) # { <<>> }
    /\ \E frequencia_id \in SelecionarFrequencia(create_tables(db)) :
         Finish(excluir_frequencia(create_tables(db), frequencia_id), "success")

Next ==
    \/ Login
    \/ LoginPrompt
    \/ Logout
    \/ Render
    \/ CadastrarParticipante
    \/ CadastrarAtividade
    \/ RegistrarFrequencia
    \/ ExcluirParticipante
    \/ ExcluirAtividade
    \/ ExcluirFrequencia

Spec == Init /\ [][Next]_vars

(***************************************************************************)
(* excluir_participante followed statement by statement, with the process  *)
(* failing (an uncaught exception or the death of the process) at any      *)
(* point before conn.commit() returns.                                     *)
(***************************************************************************)
Failed == { "failed_called", "failed_between", "failed_uncommitted" }

\* 'Excluir Participante' is clicked and excluir_participante is entered.
CallExcluirParticipante ==
    /\ pc = "idle"
    /\ Gate(authentication_status)
    /\ get_participantes_dropdown(create_tables(db)) # <<>>
    /\ \E participante_id \in SelecionarParticipante(create_tables(db)) :
         arg' = participante_id
    /\ pc' = "called"
    /\ db' = create_tables(db)
    /\ work' = create_tables(db)
    /\ snapshot' = create_tables(db)
    /\ msg' = "none"
    /\ UNCHANGED <<authentication_status, today>>

\* c.execute('DELETE FROM frequencia WHERE participante_id = ?', ...)
Statement191 ==
    /\ pc = "called"
    /\ work' = delete_frequencia_participante(work, arg)
    /\ db' = ImplicitTransaction(db, work')
    /\ pc' = "between"
    /\ UNCHANGED <<snapshot, arg, authentication_status, today, msg>>

\* c.execute('DELETE FROM participantes WHERE id = ?', ...)
Statement192 ==
    /\ pc = "between"
    /\ work' = delete_participante(work, arg)
    /\ db' = ImplicitTransaction(db, work')
    /\ pc' = "uncommitted"
    /\ UNCHANGED <<snapshot, arg, authentication_status, today, msg>>

\* conn.commit(), and the st.success that follows the call.
Commit193 ==
    /\ pc = "uncommitted"
    /\ db' = work
    /\ work' = EmptyStore
    /\ snapshot' = EmptyStore
    /\ arg' = None
    /\ pc' = "idle"
    /\ msg' = "success"
    /\ UNCHANGED <<authentication_status, today>>

\* The run ends before the commit: the open transaction is rolled back.
Fail ==
    /\ pc \in { "called", "between", "uncommitted" }
    /\ pc' = (IF pc = "called" THEN "failed_called"
              ELSE IF pc = "between" THEN "failed_between" ELSE "failed_uncommitted")
    /\ work' = EmptyStore
    /\ UNCHANGED <<db, snapshot, arg, authentication_status, today, msg>>

\* The next run of the script, on a new connection.
Restart ==
    /\ pc \in Failed
    /\ pc' = "idle"
    /\ arg' = None
    /\ snapshot' = EmptyStore
    /\ UNCHANGED <<db, work, authentication_status, today, msg>>

NextFail ==
    \/ Next
    \/ CallExcluirParticipante
    \/ Statement191
    \/ Statement192
    \/ Commit193
    \/ Fail
    \/ Restart

SpecFail == Init /\ [][NextFail]_vars

(***************************************************************************)
(* Properties.                                                             *)
(***************************************************************************)
\* The rows of the three tables.
Tables(s) == <<s.participantes, s.atividades, s.frequencia>>

Ids(table) == { table[i].id : i \in 1..Len(table) }

\* Calendar order of two dates.
DateLeq(d1, d2) ==
    d1.year * 10000 + d1.month * 100 + d1.day
        <= d2.year * 10000 + d2.month * 100 + d2.day

\* The count a DataFrame gives for (atividade, data), 0 when it has no such row.
NumPresentes(df, atividade, data) ==
    IF \E i \in 1..Len(df) : df[i][1] = atividade /\ df[i][2] = data
    THEN (CHOOSE r \in Range(df) : r[1] = atividade /\ r[2] = data)[3]
    ELSE 0

\* The (atividade, data) groups of a DataFrame.
Groups(df) == { <<df[i][1], df[i][2]>> : i \in 1..Len(df) }

\* C1: in every reachable state, each frequencia row's participante_id is the
\* id of a row of participantes and its atividade_id the id of a row of
\* atividades: there is no orphaned attendance record.
C1_ReferentialIntegrity ==
    \A f \in Range(db.frequencia) :
        /\ f.participante_id \in Ids(db.participantes)
        /\ f.atividade_id \in Ids(db.atividades)

\* A participant was deleted and attendance rows remain.
C1_Witness ==
    /\ db.frequencia # <<>>
    /\ Len(db.participantes) < db.sqlite_sequence.participantes

\* C2: deleting participant id removes that row of participantes and every
\* frequencia row of that participant, and leaves every other frequencia
\* row, every other participant and every activity as they were.
C2_DeleteParticipante ==
    [][ExcluirParticipante =>
          \E id \in Ids(db.participantes) :
             /\ id \notin Ids(db'.participantes)
             /\ \A f \in Range(db'.frequencia) : f.participante_id # id
             /\ db'.frequencia = SelectSeq(db.frequencia, LAMBDA f : f.participante_id # id)
             /\ db'.participantes = SelectSeq(db.participantes, LAMBDA p : p.id # id)
             /\ db'.atividades = db.atividades]_vars

\* Participant 2 was deleted with the attendance registered for it;
\* participant 1 and the activity are still there.
C2_Witness ==
    /\ msg = "success"
    /\ Ids(db.participantes) = { 1 }
    /\ db.sqlite_sequence.participantes = 2
    /\ db.sqlite_sequence.frequencia = 1
    /\ db.frequencia = <<>>
    /\ db.atividades # <<>>

C4_PresenceCount ==
    [][\A participante_id \in Ids(db.participantes), atividade_id \in Ids(db.atividades),
          presenca \in {0, 1}, data \in DateInputs :
          (/\ Len(db'.frequencia) = Len(db.frequencia) + 1
           /\ db' = registrar_frequencia(create_tables(db), participante_id, atividade_id,
                                         presenca, data)
           /\ RegistrarFrequencia)
          => \A df \in obter_dados_participantes_por_atividade(db),
                dg \in obter_dados_participantes_por_atividade(db') :
                LET nome == (CHOOSE a \in Range(db.atividades) : a.id = atividade_id).atividade
                IN  IF presenca = 1
                    THEN /\ NumPresentes(dg, nome, data) = NumPresentes(df, nome, data) + 1
                         /\ Groups(dg) = Groups(df) \cup { <<nome, data>> }
                         /\ \A g \in Groups(dg) \ { <<nome, data>> } :
                               NumPresentes(dg, g[1], g[2]) = NumPresentes(df, g[1], g[2])
                    ELSE Range(dg) = Range(df)]_vars

\* Presence was registered twice in one group.
C4_Witness ==
    /\ msg = "success"
    /\ \E df \in obter_dados_participantes_por_atividade(db) :
          \E i \in 1..Len(df) : df[i][3] = 2

\* C5: 'Registrar' with no participant or no activity registered is refused
\* with st.error and leaves the tables as they were; a row is registered
\* only with ids of rows that exist, never with None.
C5_RefuseEmpty ==
    [][RegistrarFrequencia =>
          IF db.participantes = <<>> \/ db.atividades = <<>>
          THEN msg' = "error" /\ Tables(db') = Tables(db)
          ELSE /\ msg' = "success"
               /\ Len(db'.frequencia) = Len(db.frequencia) + 1
               /\ db'.frequencia[Len(db'.frequencia)].participante_id \in Ids(db.participantes)
               /\ db'.frequencia[Len(db'.frequencia)].atividade_id \in Ids(db.atividades)]_vars

\* A refused submission: an activity is registered and no participant is.
C5_Witness ==
    /\ authentication_status = "True"
    /\ msg = "error"
    /\ db.participantes = <<>>
    /\ db.atividades # <<>>

\* C6: a run in which the login status is rejected or not yet attempted, at
\* its start or as the login call returns it, leaves the three tables as
\* they were: the controller is dispatched for the authenticated status only.
C6_AuthGate ==
    [][(authentication_status # "True" \/ authentication_status' # "True")
          => Tables(db') = Tables(db)]_vars

\* A rejected login over a store that holds rows of the three tables.
C6_Witness ==
    /\ authentication_status = "False"
    /\ msg = "error"
    /\ db.participantes # <<>>
    /\ db.atividades # <<>>
    /\ db.frequencia # <<>>

\* C7, as stated: a failure between the two DELETE statements leaves the
\* database file without the attendance rows of the participant and with
\* the participant's row; a failure before the first leaves it unchanged.
C7_AsStated ==
    /\ pc = "failed_between" =>
          /\ \A f \in Range(db.frequencia) : f.participante_id # arg
          /\ arg \in Ids(db.participantes)
    /\ pc = "failed_called" => Tables(db) = Tables(snapshot)

\* C7, amended: a failure anywhere before conn.commit() returns, between
\* the two DELETE statements included, leaves the database file as it was
\* when excluir_participante was entered.
C7_FailureRollsBack ==
    pc \in Failed => Tables(db) = Tables(snapshot)

\* A failure between the two statements for a participant with attendance.
C7_Witness ==
    /\ pc = "failed_between"
    /\ \E f \in Range(snapshot.frequencia) : f.participante_id = arg

\* C8: every possible result of visualizar_frequencia is in non-decreasing
\* order of the record dates, and holds exactly one row for each frequencia
\* row whose participant and activity exist, with that participant's name
\* and that activity's name.
C8_ListAttendance ==
    LET results == visualizar_frequencia(db)
        expected ==
            { <<f.id,
                (CHOOSE p \in Range(db.participantes) : p.id = f.participante_id).nome,
                (CHOOSE a \in Range(db.atividades) : a.id = f.atividade_id).atividade,
                f.presenca, f.data_frequencia>> :
              f \in { g \in Range(db.frequencia) :
                        /\ g.participante_id \in Ids(db.participantes)
                        /\ g.atividade_id \in Ids(db.atividades) } }
    IN  /\ results # { }
        /\ \A q \in results :
              /\ \A i \in 1..(Len(q) - 1) :
                    DateLeq(to_date(q[i][5]), to_date(q[i + 1][5]))
              /\ Len(q) = Cardinality(expected)
              /\ Range(q) = expected

\* Attendance of October was registered before attendance of February.
C8_Witness ==
    /\ Len(db.frequencia) = 2
    /\ to_date(db.frequencia[1].data_frequencia) = Date(2024, 10, 5)
    /\ to_date(db.frequencia[2].data_frequencia) = Date(2024, 2, 10)

\* C9: 'Cadastrar' of a participant appends exactly one row to what
\* visualizar_participantes returned before, with an id no row had, the
\* fields as entered and today's date, and leaves the other tables alone.
C9_AddParticipante ==
    [][CadastrarParticipante =>
          \E in \in ParticipanteInputs :
             LET before == visualizar_participantes(db)
                 after == visualizar_participantes(db')
             IN  /\ Len(after) = Len(before) + 1
                 /\ SubSeq(after, 1, Len(before)) = before
                 /\ \A i \in 1..Len(before) : before[i][1] # after[Len(after)][1]
                 /\ SubSeq(after[Len(after)], 2, 5) = in
                 /\ to_date(after[Len(after)][6]) = today
                 /\ db'.atividades = db.atividades
                 /\ db'.frequencia = db.frequencia]_vars

\* A participant was registered, on 9 January, after another one had been
\* deleted.
C9_Witness ==
    /\ msg = "success"
    /\ Len(db.participantes) = 2
    /\ db.participantes[2].id = 3
    /\ db.participantes[1].nome # db.participantes[2].nome
    /\ to_date(db.participantes[2].data_inscricao) = Date(2025, 1, 9)

\* The tables change in the handler of a clicked button only, and 'Cadastrar'
\* adds exactly one row to its table.
C10_Common ==
    /\ Tables(db') # Tables(db) =>
          \/ CadastrarParticipante \/ CadastrarAtividade \/ RegistrarFrequencia
          \/ ExcluirParticipante \/ ExcluirAtividade \/ ExcluirFrequencia
    /\ Tables(db') = Tables(db) \/ ~ (Render \/ Login \/ LoginPrompt \/ Logout)
    /\ CadastrarParticipante =>
          /\ Len(db'.participantes) = Len(db.participantes) + 1
          /\ db'.atividades = db.atividades /\ db'.frequencia = db.frequencia
    /\ CadastrarAtividade =>
          /\ Len(db'.atividades) = Len(db.atividades) + 1
          /\ db'.participantes = db.participantes /\ db'.frequencia = db.frequencia

\* C10, as stated: a run without a click on a submit or confirm button
\* leaves the tables as they were, and every click on the submit button of
\* a registration screen adds exactly one row.
C10_AsStated ==
    [][/\ C10_Common
       /\ RegistrarFrequencia =>
             /\ Len(db'.frequencia) = Len(db.frequencia) + 1
             /\ db'.participantes = db.participantes
             /\ db'.atividades = db.atividades]_vars

\* C10, amended: as stated, but a click on 'Registrar' adds exactly one row
\* when a participant and an activity are registered, and none otherwise.
C10_SubmitOnly ==
    [][/\ C10_Common
       /\ RegistrarFrequencia =>
             /\ Len(db'.frequencia) = Len(db.frequencia)
                   + (IF db.participantes # <<>> /\ db.atividades # <<>> THEN 1 ELSE 0)
             /\ db'.participantes = db.participantes
             /\ db'.atividades = db.atividades]_vars

\* A screen was rendered, with a warning, over a store that holds rows.
C10_Witness ==
    /\ authentication_status = "True"
    /\ msg = "warning"
    /\ db.participantes # <<>>
    /\ db.frequencia # <<>>

====
